---- MODULE Spec2Model ----
(***************************************************************************)
(* Model of the emulator control and scenario-verification engine:         *)
(*   QemuRunner  (magiclantern/ml_qemu/run.py)                             *)
(*   MenuTest.run (magiclantern/ml_tests/menu_test.py)                     *)
(* The harness is one sequential flow (pc); the emulator is an independent *)
(* OS process whose steps interleave freely with the harness.              *)
(***************************************************************************)
EXTENDS Integers, Sequences, FiniteSets, TLC

\* ---------------------------------------------------------------- bounds
\* longest key sequence of the injected key-sequence table
MaxSteps == 3
\* most direct calls a client makes on a QemuRunner inside its context
MaxCalls == 2
\* most times __exit__ is run on one QemuRunner
MaxExits == 2

\* ------------------------------------------------------ program constants
\* run.py:136  str(n).zfill(2)
ZfillWidth == 2
\* menu_test.py:124  delay = 0.3   (in tenths of a second)
DefaultDelay == 3
\* menu_test.py:129  delay = 5     (in tenths of a second)
WaitDelay == 50

\* ------------------------------------------------------------ input data
\* A vnc key string is modelled as its whitespace-separated words:
\* "m" is <<"m">>, "wait l" is <<"wait", "l">>.
KeyStrings == { <<"m">>, <<"wait", "l">> }

KeySequences == UNION { [1..n -> KeyStrings] : n \in 1..MaxSteps }

\* self.known_cams: device model -> set of known firmware md5 sums
known_cams == [m \in {"50D"} |-> {"rom1", "rom2"}]

Models == {"50D", "nocam"}
Md5s == {"rom1", "rom2", "rom3"}

\* md5 sums that have an entry in MenuTest.qemu_key_sequences
SequencedRoms == {"rom1"}

expected_output_dir == "expected/"

VARIABLES
    cam,                 \* self.cam: [model, code_rom_md5]
    qemu_key_sequences,  \* the key-sequence table: md5 -> sequence of key strings
    force_continue,      \* self.force_continue
    qemu_monitor_path,   \* self.qemu_monitor_path, passed as monitor_socket_path
    peer,                \* a second run executing at the same time, or NoPeer
    pc,                  \* position of MenuTest.run
    key_sequence,        \* local of MenuTest.run
    i,                   \* index of the current element of key_sequence
    screen_cap_prefix,   \* QemuRunner.screen_cap_prefix
    screen_cap_counter,  \* QemuRunner.screen_cap_counter
    screen_cap_name,     \* QemuRunner.screen_cap_name
    vnc_client,          \* QemuRunner.vnc_client: "none" | "connected"
    qemu_process,        \* QemuRunner.qemu_process: "none" | "started"
    terminations,        \* number of qemu_process.terminate() calls
    emu,                 \* emulator process: "none" | "starting" | "up" | "exited"
    sockFile,            \* TRUE iff a file exists at monitor_socket_path
    keys,                \* log: key events sent, [key, delay]
    captures,            \* log: capture artifact names written
    captureCalls,        \* log: number of capture_screen calls
    compares,            \* log: comparisons made, [path, outcome]
    fails,               \* log: names passed to screen.save
    monitor,             \* log: commands written to the management socket
    mgmtOpen,            \* number of management connections currently open
    apiCalls,            \* log: direct calls of a client on the QemuRunner, [op, arg]
    pending,             \* how the with-block is being left
    outcome              \* what run() produced

vars == << cam, qemu_key_sequences, force_continue, qemu_monitor_path, peer, pc, key_sequence, i,
           screen_cap_prefix, screen_cap_counter, screen_cap_name, vnc_client,
           qemu_process, terminations, emu, sockFile, keys, captures,
           captureCalls, compares, fails, monitor, mgmtOpen, apiCalls, pending,
           outcome >>

config == << cam, qemu_key_sequences, force_continue, qemu_monitor_path >>
runner == << screen_cap_prefix, screen_cap_counter, screen_cap_name, vnc_client >>
process == << qemu_process, terminations >>
client == << mgmtOpen, apiCalls >>
logs == << keys, captures, captureCalls, compares, fails, monitor >>

\* no second run
NoPeer == [pc |-> "absent", arg |-> "", prefix |-> "", counter |-> 0,
           emu |-> "none", sock |-> FALSE, names |-> {}]

NoOutcome == [kind |-> "none", reason |-> << >>]
NoPending == [kind |-> "none", reason |-> << >>]

\* ------------------------------------------------------------ pure helpers
Digit(d) == CASE d = 0 -> "0" [] d = 1 -> "1" [] d = 2 -> "2" [] d = 3 -> "3"
              [] d = 4 -> "4" [] d = 5 -> "5" [] d = 6 -> "6" [] d = 7 -> "7"
              [] d = 8 -> "8" [] d = 9 -> "9"

RECURSIVE Str(_)
\* str(n) for n >= 0, as a sequence of digit characters
Str(n) == IF n < 10 THEN << Digit(n) >> ELSE Str(n \div 10) \o << Digit(n % 10) >>

RECURSIVE Zfill(_, _)
\* s.zfill(w): left-pad with "0" up to width w, never truncates
Zfill(s, w) == IF Len(s) >= w THEN s ELSE Zfill(<< "0" >> \o s, w)

\* mutant: the number is not padded
CaptureNameUnpadded(prefix, n) == << prefix >> \o Str(n) \o << ".png" >>

\* mutant: the name is built from the counter after its increment
CaptureNamePostIncrement(prefix, n) ==
    << prefix >> \o Zfill(Str(n + 1), ZfillWidth) \o << ".png" >>

\* self.screen_cap_prefix + str(n).zfill(2) + ".png"
CaptureName(prefix, n) == << prefix >> \o Zfill(Str(n), ZfillWidth) \o << ".png" >>

\* q.screen_cap_name, as run() reads it after key_press: the name of the
\* capture that key_press has just written (run.py builds this name in
\* capture_screen but keeps it in no attribute)
ScreenCapName(prefix, n) == CaptureName(prefix, n)

\* os.path.join(self.expected_output_dir, q.screen_cap_name)
ExpectedPath(name) == << expected_output_dir >> \o name

\* mutant: the diagnostic is saved under the name of the capture itself
FailNameUnprefixed(name) == name

\* "fail_" + q.screen_cap_name
FailName(name) == << "fail_" >> \o name

\* k.startswith("wait")
StartsWithWait(k) == k[1] = "wait"

\* delay = 0.3; if k.startswith("wait"): delay = 5
Delay(k) == IF StartsWithWait(k) THEN WaitDelay ELSE DefaultDelay

\* k = k.split()[-1] when the key string starts with "wait", else k itself
KeyOf(k) == IF StartsWithWait(k) THEN k[Len(k)] ELSE k[1]

\* ------------------------------------------------- QemuRunner operations
\* mutant: __exit__ that removes the socket file without terminating
TerminateSkipped(n) == n

\* self.qemu_process.terminate(): one more termination signal sent
Terminate(n) == n + 1

\* try: os.remove(self.monitor_socket_path) except FileNotFoundError: pass
\* the file is absent afterwards, whether or not it existed
RemoveSocket(exists) == FALSE

\* mutant: capture_screen that does not advance the counter
NextCounterStuck(n) == n

\* n = self.screen_cap_counter; self.screen_cap_counter += 1
NextCounter(n) == n + 1

\* s.connect(self.monitor_socket_path) on an AF_UNIX stream socket
ConnectResult(exists, e) ==
    IF ~exists THEN "FileNotFoundError"
    ELSE IF e # "up" THEN "ConnectionRefusedError"
    ELSE "connected"

\* if monitor_socket_path: self.monitor_socket_path = monitor_socket_path
\* else: self.monitor_socket_path = "qemu.monitor"
MonitorSocketPath(arg) == IF arg # "" THEN arg ELSE "qemu.monitor"

\* the socket s of shutdown() is never closed by the code: when the call
\* returns the object is unreferenced, and its connection is closed when
\* the interpreter finalises it, at once or at a later collection
DropSocket(n, finalised) == IF finalised THEN n - 1 ELSE n

\* mutant: the file is removed without the FileNotFoundError handler
RemoveRaisesUncaught(exists) == ~exists

\* try: os.remove(...) except FileNotFoundError: pass
\* TRUE iff an error leaves __exit__
RemoveRaises(exists) == FALSE

\* mutant: key_press captures whatever capture_screen is
CapturesAlways(capture_screen) == TRUE

\* key_press: if capture_screen: self.capture_screen()
CapturesAfterPress(capture_screen) == capture_screen

\* if force: s.send(b"quit\n") else: s.send(b"system_powerdown\n")
ShutdownCommand(force) == IF force THEN "quit\n" ELSE "system_powerdown\n"

\* --------------------------------------------------- MenuTest.run policies
\* mutant: the missing reference is passed over whatever force_continue is
OnReferenceMissingIgnored(force) == "continue"

\* except FileNotFoundError: pass if force_continue, else return_failure
OnReferenceMissing(force) == IF force THEN "continue" ELSE "return_failure"

\* mutant: a timeout fails the run whatever force_continue is
OnTimeoutFails(force) == "return_failure"

\* except TimeoutError: (after the save) pass if force_continue, else return_failure
OnTimeout(force) == IF force THEN "continue" ELSE "return_failure"

\* mutant: the reason does not carry the path
MissingReasonBare(path) == << "Missing expected output file" >>

MissingReason(path) == << "Missing expected output file: " >> \o path

\* mutant: the reason does not tell where the diagnostic was saved
TimeoutReasonNoCheck(path, fail_name) ==
    << "Qemu screen never matched against expected result file '" >> \o path \o << "'" >>

TimeoutReason(path, fail_name) ==
    << "Qemu screen never matched against expected result file '" >> \o path
        \o << "'\n, check '" >> \o fail_name \o << "'" >>

\* mutant: the test against the key-sequence table is left out
PreconditionFailureNoTable(c, table) ==
    IF c.model \notin DOMAIN known_cams
    THEN << "No tests known for cam: ", c.model >>
    ELSE IF c.code_rom_md5 \notin known_cams[c.model]
    THEN << "Unknown rom for cam, MD5 sum: ", c.code_rom_md5 >>
    ELSE << >>

\* the three precondition tests of run(), in order; << >> when all pass
PreconditionFailure(c, table) ==
    IF c.model \notin DOMAIN known_cams
    THEN << "No tests known for cam: ", c.model >>
    ELSE IF c.code_rom_md5 \notin known_cams[c.model]
    THEN << "Unknown rom for cam, MD5 sum: ", c.code_rom_md5 >>
    ELSE IF c.code_rom_md5 \notin DOMAIN table
    THEN << "Unknown rom for MenuTest, MD5 sum: ", c.code_rom_md5 >>
    ELSE << >>

\* the for loop: where run() goes once the step at index n is finished
AfterStep(n, seq) == IF n < Len(seq) THEN "key" ELSE "shutdown"

\* ------------------------------------------------------------------- Init
\* the state of one run before run() is called
InitRun ==
    /\ force_continue \in BOOLEAN
    /\ qemu_monitor_path \in {"", "run1.monitor"}
    /\ pc = "start"
    /\ key_sequence = << >>
    /\ i = 0
    /\ screen_cap_prefix = ""
    /\ screen_cap_counter = 0
    /\ screen_cap_name = << >>
    /\ vnc_client = "none"
    /\ qemu_process = "none"
    /\ terminations = 0
    /\ emu = "none"
    /\ sockFile = FALSE
    /\ keys = << >>
    /\ captures = << >>
    /\ captureCalls = 0
    /\ compares = << >>
    /\ fails = << >>
    /\ monitor = << >>
    /\ mgmtOpen = 0
    /\ apiCalls = << >>
    /\ pending = NoPending
    /\ outcome = NoOutcome

Init ==
    /\ cam \in [model : Models, code_rom_md5 : Md5s]
    /\ qemu_key_sequences \in [SequencedRoms -> KeySequences]
    /\ peer = NoPeer
    /\ InitRun

\* ------------------------------------------------------- harness actions
\* run(), lines 79-91: the precondition tests and the table lookup
CheckPreconditions ==
    /\ pc = "start"
    /\ LET why == PreconditionFailure(cam, qemu_key_sequences) IN
         IF why # << >>
         THEN /\ outcome' = [kind |-> "Failed", reason |-> why]
              /\ pc' = "done"
              /\ UNCHANGED key_sequence
         ELSE \* line 91 is a dict lookup: a missing key raises KeyError
              IF cam.code_rom_md5 \notin DOMAIN qemu_key_sequences
              THEN /\ outcome' = [kind |-> "Raised", reason |-> << "KeyError" >>]
                   /\ pc' = "done"
                   /\ UNCHANGED key_sequence
              ELSE /\ key_sequence' = qemu_key_sequences[cam.code_rom_md5]
                   /\ pc' = "construct"
                   /\ UNCHANGED outcome
    /\ UNCHANGED << config, peer, client, i, runner, process, emu, sockFile, logs, pending >>

\* QemuRunner.__init__: prefix, counter, and the vnc client is connected here
\* (run() passes a vnc_display)
Construct ==
    /\ pc = "construct"
    /\ screen_cap_prefix' = "test_"
    /\ screen_cap_counter' = 0
    /\ vnc_client' = "connected"
    /\ pc' = "enter"
    /\ UNCHANGED << config, peer, client, key_sequence, i, screen_cap_name, process, emu, sockFile,
                    logs, pending, outcome >>

\* QemuRunner.__enter__: Popen starts the emulator, or raises when it cannot
\* be executed; in that case the with-block is never entered and __exit__
\* is not called.
Enter ==
    /\ pc = "enter"
    /\ \E launched \in BOOLEAN :
         IF launched
         THEN /\ qemu_process' = "started"
              /\ emu' = "starting"
              /\ pc' = "body"
              /\ UNCHANGED outcome
         ELSE /\ outcome' = [kind |-> "Raised", reason |-> << "FileNotFoundError" >>]
              /\ pc' = "done"
              /\ UNCHANGED << qemu_process, emu >>
    /\ UNCHANGED << config, peer, client, key_sequence, i, runner, terminations, sockFile,
                    logs, pending >>

\* run(), lines 104-123: the patch of the protocol, the prefix, the loop entry
Body ==
    /\ pc = "body"
    /\ screen_cap_prefix' = "menu_test_"
    /\ i' = 1
    /\ pc' = AfterStep(0, key_sequence)
    /\ UNCHANGED << config, peer, client, key_sequence, screen_cap_counter, screen_cap_name,
                    vnc_client, process, emu, sockFile, logs, pending, outcome >>

\* leaving the with-block by an exception
Raise(what) ==
    /\ pending' = [kind |-> "exception", reason |-> << what >>]
    /\ pc' = "exit"

\* leaving the with-block by return self.return_failure(reason)
ReturnFailure(why) ==
    /\ pending' = [kind |-> "return_failure", reason |-> why]
    /\ pc' = "exit"

\* going on with the next element of the loop, or past the loop
Continue ==
    /\ pc' = AfterStep(i, key_sequence)
    /\ i' = i + 1
    /\ UNCHANGED pending

\* run() lines 124-131 and key_press line 124: vnc_client.keyPress(key);
\* the delay run() passes is recorded with the key, and the capture follows
\* (capture_screen defaults to True)
KeyPress ==
    /\ pc = "key"
    /\ LET k == key_sequence[i] IN
         \/ /\ emu = "up"
            /\ keys' = Append(keys, [key |-> KeyOf(k), delay |-> Delay(k)])
            /\ pc' = "capture"
            /\ UNCHANGED pending
         \/ /\ Raise("VncError")
            /\ UNCHANGED keys
    /\ UNCHANGED << config, peer, client, key_sequence, i, runner, process, emu, sockFile,
                    captures, captureCalls, compares, fails, monitor, outcome >>

\* capture_screen: the counter is advanced, then the frame is requested
\* and written under the name built from the old counter value
CaptureScreen ==
    /\ pc = "capture"
    /\ captureCalls' = captureCalls + 1
    /\ screen_cap_counter' = NextCounter(screen_cap_counter)
    /\ LET name == CaptureName(screen_cap_prefix, screen_cap_counter) IN
         /\ screen_cap_name' = ScreenCapName(screen_cap_prefix, screen_cap_counter)
         /\ \/ /\ emu = "up"
               /\ captures' = Append(captures, name)
               /\ pc' = "expect"
               /\ UNCHANGED pending
            \/ /\ Raise("VncError")
               /\ UNCHANGED captures
    /\ UNCHANGED << config, peer, client, key_sequence, i, screen_cap_prefix, vnc_client, process,
                    emu, sockFile, keys, compares, fails, monitor, outcome >>

\* run() lines 132-142: expectScreen(expected_output_path, maxrms=0.0) and
\* the dispatch on what it raises
ExpectScreen ==
    /\ pc = "expect"
    /\ LET path == ExpectedPath(screen_cap_name) IN
         \/ /\ emu = "up"
            /\ compares' = Append(compares, [path |-> path, outcome |-> "Match"])
            /\ Continue
         \/ /\ compares' = Append(compares, [path |-> path, outcome |-> "ReferenceMissing"])
            /\ IF OnReferenceMissing(force_continue) = "continue"
               THEN Continue
               ELSE ReturnFailure(MissingReason(path)) /\ UNCHANGED i
         \/ /\ compares' = Append(compares, [path |-> path, outcome |-> "TimedOut"])
            /\ pc' = "savefail"
            /\ UNCHANGED << i, pending >>
         \/ /\ compares' = Append(compares, [path |-> path, outcome |-> "Error"])
            /\ Raise("VncError")
            /\ UNCHANGED i
    /\ UNCHANGED << config, peer, client, key_sequence, runner, process, emu, sockFile,
                    keys, captures, captureCalls, fails, monitor, outcome >>

\* run() lines 148-155: the diagnostic save and the force_continue test
SaveFail ==
    /\ pc = "savefail"
    /\ LET fail_name == FailName(screen_cap_name)
           path == ExpectedPath(screen_cap_name) IN
         /\ fails' = Append(fails, fail_name)
         /\ \/ IF OnTimeout(force_continue) = "continue"
               THEN Continue
               ELSE ReturnFailure(TimeoutReason(path, fail_name)) /\ UNCHANGED i
            \/ Raise("OSError") /\ UNCHANGED i
    /\ UNCHANGED << config, peer, client, key_sequence, runner, process, emu, sockFile,
                    keys, captures, captureCalls, compares, monitor, outcome >>

\* run() line 158, QemuRunner.shutdown(): connect, send, sleep; the socket
\* object is dropped, not closed, when the call returns or raises
Shutdown ==
    /\ pc = "shutdown"
    /\ LET r == ConnectResult(sockFile, emu) IN
         IF r = "connected"
         THEN /\ monitor' = Append(monitor, ShutdownCommand(FALSE))
              /\ \E finalised \in BOOLEAN : mgmtOpen' = DropSocket(mgmtOpen + 1, finalised)
              /\ pending' = [kind |-> "normal", reason |-> << >>]
              /\ pc' = "exit"
         ELSE /\ Raise(r)
              /\ UNCHANGED << monitor, mgmtOpen >>
    /\ UNCHANGED << config, peer, apiCalls, key_sequence, i, runner, process, emu, sockFile,
                    keys, captures, captureCalls, compares, fails, outcome >>

\* the result of run() once __exit__ has returned (it returns None, so a
\* pending exception propagates); line 160 on the normal path
Result(p) ==
    CASE p.kind = "return_failure" -> [kind |-> "Failed", reason |-> p.reason]
      [] p.kind = "exception" -> [kind |-> "Raised", reason |-> p.reason]
      [] p.kind = "normal" -> [kind |-> "Succeeded", reason |-> << >>]

\* QemuRunner.__exit__: terminate, remove the socket file; then run() ends
Exit ==
    /\ pc = "exit"
    /\ terminations' = Terminate(terminations)
    /\ sockFile' = RemoveSocket(sockFile)
    /\ outcome' = IF RemoveRaises(sockFile)
                   THEN [kind |-> "Raised", reason |-> << "FileNotFoundError" >>]
                   ELSE Result(pending)
    /\ pc' = "done"
    /\ UNCHANGED << config, peer, client, key_sequence, i, runner, qemu_process, emu,
                    logs, pending >>

\* ------------------------------------------------------ emulator process
\* the emulator creates and listens on the monitor socket
\* (-chardev socket,server,nowait,path=...); a termination signal that was
\* sent but not yet delivered does not stop it from getting here
EmuBind ==
    /\ emu = "starting"
    /\ emu' = "up"
    /\ sockFile' = TRUE
    /\ UNCHANGED << config, peer, client, pc, key_sequence, i, runner, process, logs,
                    pending, outcome >>

\* the emulator process ends: by the signal, by a monitor command, or by
\* itself; the socket file stays behind
EmuExit ==
    /\ emu \in {"starting", "up"}
    /\ emu' = "exited"
    /\ UNCHANGED << config, peer, client, pc, key_sequence, i, runner, process, sockFile,
                    logs, pending, outcome >>

\* the interpreter finalises an unreferenced socket object: its
\* connection is closed
CollectSocket ==
    /\ mgmtOpen > 0
    /\ mgmtOpen' = mgmtOpen - 1
    /\ UNCHANGED << config, peer, apiCalls, pc, key_sequence, i, runner, process, emu,
                    sockFile, logs, pending, outcome >>

Next ==
    \/ CheckPreconditions
    \/ Construct
    \/ Enter
    \/ Body
    \/ KeyPress
    \/ CaptureScreen
    \/ ExpectScreen
    \/ SaveFail
    \/ Shutdown
    \/ Exit
    \/ EmuBind
    \/ EmuExit
    \/ CollectSocket

Spec == Init /\ [][Next]_vars

\* ------------------------------------------- direct use of a QemuRunner
\* The class is also used directly ("with QemuRunner() as q", then
\* q.key_press, q.capture_screen, q.shutdown, see its docstring): a client
\* inside the with-block makes up to MaxCalls calls, then leaves it.

\* q.key_press(key, capture_screen): the key event, then the capture when
\* asked for
ApiKeyPress ==
    /\ pc \in {"body", "api"}
    /\ Len(apiCalls) < MaxCalls
    /\ \E capture_screen \in BOOLEAN :
         /\ apiCalls' = Append(apiCalls, [op |-> "key_press", arg |-> capture_screen])
         /\ \/ /\ Raise("VncError")
               /\ UNCHANGED << keys, captures, captureCalls, screen_cap_counter,
                               screen_cap_name >>
            \/ /\ emu = "up"
               /\ keys' = Append(keys, [key |-> "m", delay |-> 0])
               /\ IF CapturesAfterPress(capture_screen)
                  THEN /\ captureCalls' = captureCalls + 1
                       /\ screen_cap_counter' = NextCounter(screen_cap_counter)
                       /\ screen_cap_name' = ScreenCapName(screen_cap_prefix, screen_cap_counter)
                       /\ captures' = Append(captures,
                                        CaptureName(screen_cap_prefix, screen_cap_counter))
                  ELSE UNCHANGED << captures, captureCalls, screen_cap_counter,
                                    screen_cap_name >>
               /\ pc' = "api"
               /\ UNCHANGED pending
    /\ UNCHANGED << config, peer, mgmtOpen, key_sequence, i, screen_cap_prefix, vnc_client,
                    process, emu, sockFile, compares, fails, monitor, outcome >>

\* q.capture_screen()
ApiCaptureScreen ==
    /\ pc \in {"body", "api"}
    /\ Len(apiCalls) < MaxCalls
    /\ apiCalls' = Append(apiCalls, [op |-> "capture_screen", arg |-> FALSE])
    /\ captureCalls' = captureCalls + 1
    /\ screen_cap_counter' = NextCounter(screen_cap_counter)
    /\ screen_cap_name' = ScreenCapName(screen_cap_prefix, screen_cap_counter)
    /\ \/ /\ emu = "up"
          /\ captures' = Append(captures, CaptureName(screen_cap_prefix, screen_cap_counter))
          /\ pc' = "api"
          /\ UNCHANGED pending
       \/ /\ Raise("VncError")
          /\ UNCHANGED captures
    /\ UNCHANGED << config, peer, mgmtOpen, key_sequence, i, screen_cap_prefix, vnc_client,
                    process, emu, sockFile, keys, compares, fails, monitor, outcome >>

\* q.shutdown(force)
ApiShutdown ==
    /\ pc \in {"body", "api"}
    /\ Len(apiCalls) < MaxCalls
    /\ \E force \in BOOLEAN :
         /\ apiCalls' = Append(apiCalls, [op |-> "shutdown", arg |-> force])
         /\ LET r == ConnectResult(sockFile, emu) IN
              IF r = "connected"
              THEN /\ monitor' = Append(monitor, ShutdownCommand(force))
                   /\ \E finalised \in BOOLEAN :
                        mgmtOpen' = DropSocket(mgmtOpen + 1, finalised)
                   /\ pc' = "api"
                   /\ UNCHANGED pending
              ELSE /\ Raise(r)
                   /\ UNCHANGED << monitor, mgmtOpen >>
    /\ UNCHANGED << config, peer, key_sequence, i, runner, process, emu, sockFile,
                    keys, captures, captureCalls, compares, fails, outcome >>

\* the client falls out of the with-block
ApiLeave ==
    /\ pc = "api"
    /\ pending' = [kind |-> "normal", reason |-> << >>]
    /\ pc' = "exit"
    /\ UNCHANGED << config, peer, client, key_sequence, i, runner, process, emu, sockFile,
                    logs, outcome >>

\* QemuRunner.__exit__ run once more on a runner that was already left
ExitAgain ==
    /\ pc = "done"
    /\ terminations \in 1..(MaxExits - 1)
    /\ terminations' = Terminate(terminations)
    /\ sockFile' = RemoveSocket(sockFile)
    /\ outcome' = IF RemoveRaises(sockFile)
                   THEN [kind |-> "Raised", reason |-> << "FileNotFoundError" >>]
                   ELSE outcome
    /\ UNCHANGED << config, peer, client, pc, key_sequence, i, runner, qemu_process, emu,
                    logs, pending >>

NextApi ==
    \/ Next
    \/ ApiKeyPress
    \/ ApiCaptureScreen
    \/ ApiShutdown
    \/ ApiLeave
    \/ ExitAgain

SpecApi == Init /\ [][NextApi]_vars

\* ------------------------------------------------ two runs in parallel
\* A second run of the same code executes at the same time (another test
\* worker): its QemuRunner is constructed, entered, given the prefix of
\* the scenario, captures, and is left. Both runs write their captures
\* under relative names and their sockets at their monitor_socket_path.

\* the second run's socket path is the path of this run
SamePath == MonitorSocketPath(peer.arg) = MonitorSocketPath(qemu_monitor_path)

\* QemuRunner.__init__ of the second run
PeerConstruct ==
    /\ peer.pc = "construct"
    /\ peer' = [peer EXCEPT !.pc = "enter", !.prefix = "test_", !.counter = 0]
    /\ UNCHANGED << config, client, pc, key_sequence, i, runner, process, emu,
                    sockFile, logs, pending, outcome >>

\* QemuRunner.__enter__ of the second run
PeerEnter ==
    /\ peer.pc = "enter"
    /\ peer' = [peer EXCEPT !.pc = "body", !.emu = "starting"]
    /\ UNCHANGED << config, client, pc, key_sequence, i, runner, process, emu,
                    sockFile, logs, pending, outcome >>

\* run() line 122 of the second run
PeerBody ==
    /\ peer.pc = "body"
    /\ peer' = [peer EXCEPT !.pc = "steps", !.prefix = "menu_test_"]
    /\ UNCHANGED << config, client, pc, key_sequence, i, runner, process, emu,
                    sockFile, logs, pending, outcome >>

\* capture_screen of the second run
PeerCapture ==
    /\ peer.pc = "steps"
    /\ peer.counter < MaxSteps
    /\ peer' = [peer EXCEPT !.counter = NextCounter(peer.counter),
                            !.names = @ \cup {CaptureName(peer.prefix, peer.counter)}]
    /\ UNCHANGED << config, client, pc, key_sequence, i, runner, process, emu,
                    sockFile, logs, pending, outcome >>

\* QemuRunner.__exit__ of the second run: the file at its path is removed
PeerExit ==
    /\ peer.pc = "steps"
    /\ IF SamePath
       THEN /\ sockFile' = RemoveSocket(sockFile)
            /\ peer' = [peer EXCEPT !.pc = "done"]
       ELSE /\ peer' = [peer EXCEPT !.pc = "done", !.sock = RemoveSocket(peer.sock)]
            /\ UNCHANGED sockFile
    /\ UNCHANGED << config, client, pc, key_sequence, i, runner, process, emu,
                    logs, pending, outcome >>

\* the second run's emulator creates its monitor socket
PeerEmuBind ==
    /\ peer.emu = "starting"
    /\ IF SamePath
       THEN /\ sockFile' = TRUE
            /\ peer' = [peer EXCEPT !.emu = "up"]
       ELSE /\ peer' = [peer EXCEPT !.emu = "up", !.sock = TRUE]
            /\ UNCHANGED sockFile
    /\ UNCHANGED << config, client, pc, key_sequence, i, runner, process, emu,
                    logs, pending, outcome >>

\* the second run's emulator process ends
PeerEmuExit ==
    /\ peer.emu \in {"starting", "up"}
    /\ peer' = [peer EXCEPT !.emu = "exited"]
    /\ UNCHANGED << config, client, pc, key_sequence, i, runner, process, emu,
                    sockFile, logs, pending, outcome >>

\* one run of a one-step sequence for a known camera, and a second run
\* that was given a socket path of its own
InitPar ==
    /\ cam = [model |-> "50D", code_rom_md5 |-> "rom1"]
    /\ qemu_key_sequences \in [SequencedRoms -> [1..1 -> KeyStrings]]
    /\ \E arg \in {"run2.monitor", "run3.monitor"} : peer = [NoPeer EXCEPT !.pc = "construct", !.arg = arg]
    /\ InitRun

NextPar ==
    \/ Next
    \/ PeerConstruct
    \/ PeerEnter
    \/ PeerBody
    \/ PeerCapture
    \/ PeerExit
    \/ PeerEmuBind
    \/ PeerEmuExit

SpecPar == InitPar /\ [][NextPar]_vars

\* ================================================================ claims
Last(s) == s[Len(s)]

\* the run is over: run() has returned or an exception has left it
RunOver == pc = "done"

\* the run entered the QemuRunner scope (__enter__ returned)
EnteredScope == qemu_process = "started"

\* C1: for every run that entered the QemuRunner scope, once the run has
\* completed no file exists at monitor_socket_path, in every interleaving
\* with the emulator process.
C1_SocketAbsentAfterRun == (RunOver /\ EnteredScope) => ~sockFile

\* C2: whenever the emulator process was started, a termination signal has
\* been sent to it by the time the run is over, whichever way the
\* with-block was left (normally, by return_failure, by an exception).
C2_TerminatedOnEveryExit ==
    /\ (RunOver /\ qemu_process = "started") => terminations >= 1
    /\ terminations >= 1 => (RunOver /\ qemu_process = "started")

C2_Witness ==
    /\ RunOver
    /\ qemu_process = "started"
    /\ outcome.kind = "Raised"
    /\ pending.reason = << "OSError" >>
    /\ terminations = 1

\* C3: with force_continue false, once the comparison of step k reports the
\* reference missing, no further step is made: k key presses (the first k
\* keys of the sequence) and k captures have been made, no command was
\* written to the management socket, and when the run is over it is Failed
\* and the emulator process has been sent the termination signal.
C3_FailFast ==
    (~force_continue /\ compares # << >> /\ Last(compares).outcome = "ReferenceMissing")
    => LET k == Len(compares) IN
         /\ pc \in {"exit", "done"}
         /\ i = k
         /\ Len(keys) = k
         /\ \A j \in 1..k : keys[j].key = key_sequence[j][Len(key_sequence[j])]
         /\ captureCalls = k
         /\ Len(captures) = k
         /\ monitor = << >>
         /\ pending.kind = "return_failure"
         /\ RunOver => (outcome.kind = "Failed" /\ terminations = 1)

C3_Witness ==
    /\ RunOver
    /\ ~force_continue
    /\ Len(key_sequence) = 3
    /\ Len(compares) = 2
    /\ compares[1].outcome = "Match"
    /\ compares[2].outcome = "ReferenceMissing"
    /\ outcome.kind = "Failed"
    /\ terminations = 1

\* every comparison made so far returned Match, and every step was compared
AllMatched ==
    /\ Len(compares) = Len(key_sequence)
    /\ compares # << >>
    /\ \A j \in 1..Len(compares) : compares[j].outcome = "Match"

\* C4: when the comparison of every step returns Match the run ends
\* Succeeded, with one key press and one capture per step in sequence order
\* and exactly one management command, the graceful one.
C4_AllMatchSucceeds ==
    (RunOver /\ AllMatched)
    => /\ outcome.kind = "Succeeded"
       /\ Len(keys) = Len(key_sequence)
       /\ Len(captures) = Len(key_sequence)
       /\ monitor = << "system_powerdown\n" >>

\* path occurs in reason as a contiguous part
Names(reason, path) ==
    \E a \in 1..Len(reason) :
        /\ a + Len(path) - 1 <= Len(reason)
        /\ SubSeq(reason, a, a + Len(path) - 1) = path

\* the step just taken is a comparison that reported outcome o
Compared(o) ==
    /\ Len(compares') = Len(compares) + 1
    /\ compares'[Len(compares')].outcome = o

\* C5: a comparison reporting ReferenceMissing, with force_continue false,
\* makes the run leave by return_failure with a reason naming the missing
\* expected path, and the run ends Failed with that reason; with
\* force_continue true it goes on to the next step, or to the shutdown after
\* the last step, and such a run never ends Failed.
C5_MissingReferencePolicy ==
    /\ [][ Compared("ReferenceMissing")
           => IF force_continue
              THEN /\ pending' = NoPending
                   /\ outcome' = NoOutcome
                   /\ i' = i + 1
                   /\ pc' = IF i < Len(key_sequence) THEN "key" ELSE "shutdown"
              ELSE /\ pc' = "exit"
                   /\ pending'.kind = "return_failure"
                   /\ Names(pending'.reason, compares'[Len(compares')].path) ]_vars
    /\ []( (RunOver /\ pending.kind = "return_failure")
           => outcome = [kind |-> "Failed", reason |-> pending.reason] )
    /\ []( (force_continue /\ compares # << >>) => outcome.kind # "Failed" )

C5_Witness ==
    /\ RunOver
    /\ ~force_continue
    /\ Len(compares) = 2
    /\ Last(compares).outcome = "ReferenceMissing"
    /\ outcome.kind = "Failed"
    /\ Names(outcome.reason, << expected_output_dir, "menu_test_", "0", "1", ".png" >>)

\* the comparisons that timed out, in order
TimedOutCompares == SelectSeq(compares, LAMBDA c : c.outcome = "TimedOut")

ShutdownFailed ==
    /\ pending.kind = "exception"
    /\ pending.reason \in { << "FileNotFoundError" >>, << "ConnectionRefusedError" >> }

\* C7: once all steps are done without terminal failure, the run ends
\* Succeeded whether or not the final PowerDown could be sent.
C7_BestEffortShutdown ==
    (RunOver /\ (pending.kind = "normal" \/ ShutdownFailed)) => outcome.kind = "Succeeded"

\* one of the three preconditions of run() does not hold
BadConfiguration ==
    \/ cam.model \notin DOMAIN known_cams
    \/ cam.code_rom_md5 \notin known_cams[cam.model]
    \/ cam.code_rom_md5 \notin DOMAIN qemu_key_sequences

\* C8: with an unknown model, an unregistered firmware or a firmware
\* without key sequence, no runner is built, no process started, no
\* connection opened, no socket file created, and the run ends Failed.
C8_PreconditionEarlyExit ==
    BadConfiguration
    => /\ pc \in {"start", "done"}
       /\ qemu_process = "none"
       /\ emu = "none"
       /\ vnc_client = "none"
       /\ ~sockFile
       /\ keys = << >> /\ captureCalls = 0 /\ monitor = << >>
       /\ RunOver => outcome.kind = "Failed"

C8_Witness ==
    /\ RunOver
    /\ cam = [model |-> "50D", code_rom_md5 |-> "rom2"]
    /\ outcome = [kind |-> "Failed",
                  reason |-> << "Unknown rom for MenuTest, MD5 sum: ", "rom2" >>]

\* C9: the screenshot counter is 0 until the first capture, grows by exactly
\* one with every capture call and never otherwise changes, so it equals
\* the number of capture calls made; no two captures carry the same name.
C9_ScreenshotCounter ==
    /\ []( /\ screen_cap_counter = captureCalls
           /\ \A a, b \in 1..Len(captures) : a # b => captures[a] # captures[b] )
    /\ [][ \/ /\ captureCalls' = captureCalls
              /\ screen_cap_counter' = screen_cap_counter
           \/ /\ captureCalls' = captureCalls + 1
              /\ screen_cap_counter' = screen_cap_counter + 1 ]_vars

C9_Witness ==
    /\ RunOver
    /\ screen_cap_counter = 3
    /\ captureCalls = 3
    /\ Len(captures) = 2

\* C10: every run that is over has produced exactly one of Succeeded or
\* Failed(reason); no error escapes run() in place of an outcome.
C10_ExactlyOneOutcome == RunOver => outcome.kind \in {"Succeeded", "Failed"}

\* C11: when the emulator cannot be executed, or its process has ended
\* before __enter__ returns, the start fails: the body of the with-block is
\* not run; and without a process no key press, capture or management
\* command is made.
C11_LaunchFailure ==
    /\ [][ (pc = "body" /\ emu = "exited" /\ pc' # "body")
           => (pc' \in {"exit", "done"} /\ keys' = << >>) ]_vars
    /\ []( (RunOver /\ qemu_process = "none")
           => (keys = << >> /\ captureCalls = 0 /\ monitor = << >>) )

\* the capture names of a run, in order: <prefix>00, <prefix>01, ...
CanonicalNames ==
    << << "menu_test_", "0", "0", ".png" >>, << "menu_test_", "0", "1", ".png" >>,
       << "menu_test_", "0", "2", ".png" >>, << "menu_test_", "0", "3", ".png" >>,
       << "menu_test_", "0", "4", ".png" >>, << "menu_test_", "0", "5", ".png" >> >>

\* C13: the capture names of a run are fixed by their position alone:
\* the j-th capture is <prefix> + (j-1 zero-padded to two digits) + ".png",
\* whatever the comparison outcomes, so two runs of the same sequence write
\* the same names in the same order, a run that stops early writes a prefix
\* of them, and a run that succeeds writes one per step.
C13_NamingDeterminism ==
    /\ Len(captures) <= Len(key_sequence)
    /\ \A j \in 1..Len(captures) : captures[j] = CanonicalNames[j]
    /\ (RunOver /\ outcome.kind = "Succeeded") => Len(captures) = Len(key_sequence)

C13_Witness ==
    /\ RunOver
    /\ force_continue
    /\ outcome.kind = "Succeeded"
    /\ Len(compares) = 3
    /\ compares[1].outcome = "TimedOut"
    /\ compares[2].outcome = "ReferenceMissing"
    /\ compares[3].outcome = "Match"
    /\ Len(captures) = 3

\* C14: no channel is attached before the emulator process has been
\* launched: a connected display client implies a started process.
C14_AttachAfterLaunch == vnc_client = "connected" => qemu_process = "started"

Saved == pc = "savefail" /\ pc' # "savefail"

C20_ForceContinueNeverFails ==
    (force_continue /\ key_sequence # << >>)
    => /\ pending.kind # "return_failure"
       /\ (RunOver /\ qemu_process = "started" /\ outcome.kind # "Raised")
          => /\ outcome.kind = "Succeeded"
             /\ Len(keys) = Len(key_sequence)
             /\ Len(captures) = Len(key_sequence)
             /\ Len(compares) = Len(key_sequence)
             /\ monitor = << "system_powerdown\n" >>

C20_Witness ==
    /\ RunOver
    /\ force_continue
    /\ outcome.kind = "Succeeded"
    /\ Len(compares) = 3
    /\ \A j \in 1..3 : compares[j].outcome = "TimedOut"
    /\ Len(fails) = 3

\* C17: every command written to the management socket is one of the two
\* newline-terminated commands, and no management connection is open once
\* the shutdown call has returned (so never more than one at a time).
C17_ManagementCommand ==
    /\ mgmtOpen = 0
    /\ \A j \in 1..Len(monitor) : monitor[j] \in {"system_powerdown\n", "quit\n"}

\* the step just taken is a direct call op(arg) of the client
Called(op, arg) ==
    /\ Len(apiCalls') = Len(apiCalls) + 1
    /\ apiCalls'[Len(apiCalls')] = [op |-> op, arg |-> arg]

\* the step changes the capture state of the display connection
CaptureStateChanged ==
    \/ screen_cap_counter' # screen_cap_counter
    \/ screen_cap_prefix' # screen_cap_prefix

\* C18 as stated: once the display connection exists, only a capture
\* changes the counter or the prefix.
C18_FrameAsStated ==
    [][ (vnc_client = "connected" /\ CaptureStateChanged)
        => captureCalls' = captureCalls + 1 ]_vars

\* C18 amended: the counter is changed only by a capture, by one; the
\* prefix is never changed by a capture, a key press, a comparison, a
\* diagnostic save or a shutdown command, but it is set by the constructor
\* and then once by the scenario runner, before its first step.
C18_Frame ==
    [][ /\ screen_cap_counter' # screen_cap_counter
           => (captureCalls' = captureCalls + 1 /\ screen_cap_counter' = screen_cap_counter + 1)
        /\ screen_cap_prefix' # screen_cap_prefix
           => \/ pc = "construct" /\ screen_cap_prefix' = "test_"
              \/ pc = "body" /\ pc' = "key" /\ screen_cap_prefix' = "menu_test_"
                    /\ captureCalls = 0 /\ keys = << >>
        /\ ( \/ Called("key_press", FALSE)
             \/ Called("shutdown", FALSE)
             \/ Called("shutdown", TRUE)
             \/ Len(compares') # Len(compares)
             \/ Len(fails') # Len(fails)
             \/ Len(monitor') # Len(monitor) )
           => ~CaptureStateChanged ]_vars

C18_Witness ==
    /\ pc = "api"
    /\ Len(apiCalls) = 2
    /\ apiCalls[1] = [op |-> "capture_screen", arg |-> FALSE]
    /\ apiCalls[2] = [op |-> "key_press", arg |-> FALSE]
    /\ Len(keys) = 1
    /\ screen_cap_counter = 1
    /\ screen_cap_prefix = "test_"

\* C19: every run of __exit__, the first or a later one, with the emulator
\* running or already ended and the socket file present or already absent,
\* leaves the file absent and raises nothing; a later run changes nothing
\* else than the count of signals sent.
C19_IdempotentCleanup ==
    [][ terminations' # terminations
        => /\ terminations' = terminations + 1
           /\ ~sockFile'
           /\ emu' = emu
           /\ IF terminations = 0
              THEN outcome'.kind = "Raised"
                      => (pending.kind = "exception" /\ outcome'.reason = pending.reason)
              ELSE /\ outcome' = outcome
                   /\ pc' = pc
                   /\ pending' = pending
                   /\ qemu_process' = qemu_process ]_vars

C19_Witness ==
    /\ terminations = 2
    /\ emu = "exited"
    /\ ~sockFile
    /\ outcome.kind = "Succeeded"

\* this run is inside its QemuRunner context
Running == qemu_process = "started" /\ pc \notin {"exit", "done"}

\* the second run is inside its QemuRunner context
PeerRunning == peer.pc \in {"body", "steps"}

\* C12: two runs executing at the same time have different management
\* socket paths and different artifact-name prefixes, and no capture name
\* is written by both.
C12_Isolation ==
    /\ (Running /\ PeerRunning) => ~SamePath
    /\ (Running /\ pc # "body" /\ peer.pc = "steps") => screen_cap_prefix # peer.prefix
    /\ \A j \in 1..Len(captures) : captures[j] \notin peer.names

====
